---- MODULE Spec2Model ----
(***************************************************************************)
(* Model of nvim-rs `types/result.rs`: NvimResult, the wrapper around      *)
(* nvim's `Error { type_, msg }`, its conversions from and to              *)
(* `Result<(), NvimError>`, and its Drop.                                  *)
(*                                                                         *)
(* Memory is modelled explicitly: every message buffer is an allocation    *)
(* at an address, made by the host (Rust) allocator or by the foreign      *)
(* (nvim, xmalloc) allocator.  Pointers are addresses, so a pointer may    *)
(* dangle, and a freed address may be handed out again by an allocator.    *)
(* Every release call is recorded in rel against the allocation it hits,   *)
(* whatever the state of that allocation.                                  *)
(***************************************************************************)
EXTENDS Integers, Sequences, FiniteSets

VARIABLES
    mem,      \* address -> [st, by, bytes, id]: the heap
    nallocs,  \* number of allocations made so far (allocation ids 1..nallocs)
    rel,      \* history: allocation id -> the release calls that hit it,
              \*          and how the last pointer to it was lost
    res,      \* the NvimResult under consideration
    ninst,    \* number of NvimResult instances constructed so far
    raw,      \* the nvim_sys::Error a caller holds after into_ffi
    val,      \* a Result<(), NvimError> value held by host code
    given,    \* history: the value last passed to from_result
    extracted,\* history: instances that went through into_ffi
    dropRuns, \* history: instances on which Drop::drop ran
    last,     \* history: the last operation and what it returned
    conv,     \* history: the run so far followed the normal call convention
    halt      \* "run", "panic" (Rust panic) or "abort" (allocator abort)

vars == <<mem, nallocs, rel, res, ninst, raw, val, given, extracted,
          dropRuns, last, conv, halt>>

----------------------------------------------------------------------------
(* Bounds *)

MaxAllocs == 2

MaxResults == 1

MaxPopulate == 1

----------------------------------------------------------------------------
(* Values *)

NULL == 0

\* There are never more buffers than allocations.
Addrs == 1..MaxAllocs

\* The message of a host-built NvimError.  result.rs never looks at the
\* bytes of a message, so one message stands for all.
Msgs == {"boom"}

\* The message a foreign function writes.
ForeignMsgs == {"E5108"}

ErrorType_kErrorTypeNone == "kErrorTypeNone"

ErrorType_kErrorTypeException == "kErrorTypeException"

ErrorType_kErrorTypeValidation == "kErrorTypeValidation"

\* Values of the C enum's integer type that are none of the three constants.
UnknownTypes == {"kErrorTypeUnknownA", "kErrorTypeUnknownB"}

KnownTypes == {ErrorType_kErrorTypeNone, ErrorType_kErrorTypeException,
               ErrorType_kErrorTypeValidation}

ErrorTypes == KnownTypes \cup UnknownTypes

NvimErrorKind == {"Exception", "Validation"}

\* The null/non-null rule of the representation.
RepInvariant(type_, msg) == (type_ = ErrorType_kErrorTypeNone) <=> (msg = NULL)

NoBuf == [st |-> "unused", by |-> "none", bytes |-> "", id |-> 0]

NoRes == [st |-> "None", type_ |-> ErrorType_kErrorTypeNone, msg |-> NULL,
          inst |-> 0, origin |-> "none", pop |-> 0]

NoRaw == [held |-> FALSE, type_ |-> ErrorType_kErrorTypeNone, msg |-> NULL]

NoVal == [st |-> "none", kind |-> "none", msg |-> NULL]

NoGiven == [st |-> "none", kind |-> "none", bytes |-> "", id |-> 0]

NoLast == [op |-> "none", inst |-> 0, type_ |-> ErrorType_kErrorTypeNone,
           msg |-> NULL, ret |-> "none", kind |-> "none", bytes |-> "",
           live |-> FALSE, id |-> 0, alloc |-> "none"]

NoRel == [by |-> "none", n |-> 0, who |-> {}, lost |-> "no"]

AllocIds == 1..MaxAllocs

----------------------------------------------------------------------------
(* The heap *)

IsLive(m, a) == a # NULL /\ m[a].st = "live"

AllocOf(m, a) == IF a = NULL THEN "none" ELSE m[a].by

IdOf(m, a) == IF a = NULL THEN 0 ELSE m[a].id

\* An allocator may return any address that holds no live allocation,
\* a never-used one or one that was freed before.
\* Addresses matter only up to renaming, so of the never-used ones the
\* lowest stands for all.
FreeAddrs(m) ==
    {a \in Addrs : m[a].st = "freed"} \cup
    {a \in Addrs : m[a].st = "unused" /\
                     \A b \in Addrs : m[b].st = "unused" => a <= b}

Alloc(m, a, by, bytes, id) ==
    [m EXCEPT ![a] = [st |-> "live", by |-> by, bytes |-> bytes, id |-> id]]

\* Release of address a.  A live allocation becomes freed; a release of an
\* address that is not live (double free) leaves the heap as it is.
Release(m, a) ==
    IF IsLive(m, a) THEN [m EXCEPT ![a].st = "freed"] ELSE m

\* One release call on address a, made by `who`, recorded against the
\* allocation at that address.
Released(r, m, a, who) ==
    IF a = NULL THEN r
    ELSE [r EXCEPT ![m[a].id].n = @ + 1, ![m[a].id].who = @ \cup {who}]

\* The last pointer to the allocation at address a is lost, `how`.
Lost(r, m, a, how) ==
    IF a = NULL THEN r ELSE [r EXCEPT ![m[a].id].lost = how]

\* What a read of the string at address a may see.  A read of a buffer
\* that was released is undefined: it may still see the old bytes, or
\* other content (CString's drop zeroes the first byte).
ReadBytes(m, a) ==
    IF a = NULL THEN {""}
    ELSE IF IsLive(m, a) THEN {m[a].bytes}
    ELSE {m[a].bytes, ""}

\* The allocator each releaser hands the buffer to.
HostReleasers == {"from_result", "NvimError"}

ForeignReleasers == {"drop", "caller"}

\* A release of a live allocation by its own allocator proceeds; any other
\* release is undefined behaviour: the allocator may notice and abort the
\* process, or carry on.
HaltAfterRelease(m, a, by) ==
    IF IsLive(m, a) /\ m[a].by = by THEN {"run"} ELSE {"run", "abort"}

----------------------------------------------------------------------------
(* The pure parts of result.rs *)

\* Variant: the null check is missing.
cstring_from_raw_unchecked(msg) == [ok |-> TRUE, msg |-> msg]

\* Variant: the CString is a copy (CStr::from_ptr(msg).to_owned()), so it
\* does not own the buffer at msg.
cstring_from_raw_copied(msg) ==
    IF msg = NULL THEN [ok |-> FALSE, msg |-> NULL]
    ELSE [ok |-> TRUE, msg |-> NULL]

\* unsafe fn cstring_from_raw_check_null(msg): panics on null, otherwise the
\* CString that owns the buffer at msg (CString::from_raw: same pointer).
cstring_from_raw_check_null(msg) ==
    IF msg = NULL THEN [ok |-> FALSE, msg |-> NULL]
    ELSE [ok |-> TRUE, msg |-> msg]

\* Variant: the Exception and Validation arms build each other's kind.
IntoResultMatchSwapped(type_, msg) ==
    IF type_ = ErrorType_kErrorTypeNone THEN
        [ret |-> "Ok", kind |-> "none", msg |-> NULL]
    ELSE IF type_ = ErrorType_kErrorTypeException THEN
        IF msg # NULL
        THEN [ret |-> "Err", kind |-> "Validation", msg |-> msg]
        ELSE [ret |-> "panic", kind |-> "none", msg |-> NULL]
    ELSE IF type_ = ErrorType_kErrorTypeValidation THEN
        IF msg # NULL
        THEN [ret |-> "Err", kind |-> "Exception", msg |-> msg]
        ELSE [ret |-> "panic", kind |-> "none", msg |-> NULL]
    ELSE [ret |-> "panic", kind |-> "none", msg |-> NULL]

\* Variant: the catch-all arm returns Ok(()) instead of panicking.
IntoResultMatchDefaultOk(type_, msg) ==
    IF type_ = ErrorType_kErrorTypeException THEN
        IF msg # NULL
        THEN [ret |-> "Err", kind |-> "Exception", msg |-> msg]
        ELSE [ret |-> "panic", kind |-> "none", msg |-> NULL]
    ELSE IF type_ = ErrorType_kErrorTypeValidation THEN
        IF msg # NULL
        THEN [ret |-> "Err", kind |-> "Validation", msg |-> msg]
        ELSE [ret |-> "panic", kind |-> "none", msg |-> NULL]
    ELSE [ret |-> "Ok", kind |-> "none", msg |-> NULL]

\* The match of into_result on the extracted Error { type_, msg }.
IntoResultMatch(type_, msg) ==
    IF type_ = ErrorType_kErrorTypeNone THEN
        [ret |-> "Ok", kind |-> "none", msg |-> NULL]
    ELSE IF type_ = ErrorType_kErrorTypeException THEN
        IF cstring_from_raw_check_null(msg).ok
        THEN [ret |-> "Err", kind |-> "Exception",
              msg |-> cstring_from_raw_check_null(msg).msg]
        ELSE [ret |-> "panic", kind |-> "none", msg |-> NULL]
    ELSE IF type_ = ErrorType_kErrorTypeValidation THEN
        IF cstring_from_raw_check_null(msg).ok
        THEN [ret |-> "Err", kind |-> "Validation",
              msg |-> cstring_from_raw_check_null(msg).msg]
        ELSE [ret |-> "panic", kind |-> "none", msg |-> NULL]
    ELSE [ret |-> "panic", kind |-> "none", msg |-> NULL]

\* Variant: the Validation arm yields the tag None.
TypeOfKindValidationNone(kind) ==
    IF kind = "Exception" THEN ErrorType_kErrorTypeException
    ELSE ErrorType_kErrorTypeNone

\* The inner match of from_result: NvimErrorKind -> ErrorType.
TypeOfKind(kind) ==
    IF kind = "Exception" THEN ErrorType_kErrorTypeException
    ELSE ErrorType_kErrorTypeValidation

\* <NvimError as Display>::fmt: the text the match selects for the kind ...
DisplayKind(kind) ==
    IF kind = "Exception" THEN "Exception: " ELSE "Validation: "

\* ... and write!(f, "{kind}: {}", self.msg.to_string_lossy()).
DisplayFmt(kind, msg) == DisplayKind(kind) \o ": " \o msg

\* Variant: new_ok builds an error-tagged representation.
NewOkErrorTagged ==
    [type_ |-> ErrorType_kErrorTypeException, msg |-> NULL]

\* The nvim_sys::Error literal of new_ok.
NewOkError == [type_ |-> ErrorType_kErrorTypeNone, msg |-> NULL]

\* Variant: the Error handed out has lost its message pointer.
IntoFfiInnerCleared(r) == [held |-> TRUE, type_ |-> r.type_, msg |-> NULL]

\* Variant: self is not forgotten, so it is still due to be dropped.
IntoFfiSelfNotForgotten(r) == r

\* into_ffi: ManuallyDrop::take moves the Error out, mem::forget(self)
\* disarms Drop for the instance.
IntoFfiSelf(r) == [r EXCEPT !.st = "Extracted"]

IntoFfiInner(r) == [held |-> TRUE, type_ |-> r.type_, msg |-> r.msg]

\* nvim's xfree_clear(&ptr) releases *ptr with the foreign free function
\* unless it is null ...
XfreeClearReleases(msg) == msg # NULL

\* ... and leaves *ptr null.
XfreeClearPtr(msg) == NULL

----------------------------------------------------------------------------
Init ==
    /\ mem = [a \in Addrs |-> NoBuf]
    /\ nallocs = 0
    /\ rel = [i \in AllocIds |-> NoRel]
    /\ res = NoRes
    /\ ninst = 0
    /\ raw = NoRaw
    /\ val = NoVal
    /\ given = NoGiven
    /\ extracted = {}
    /\ dropRuns = {}
    /\ last = NoLast
    /\ conv = TRUE
    /\ halt = "run"

\* A new NvimResult can be bound once the previous one is gone.
CanConstruct ==
    /\ halt = "run"
    /\ res.st \in {"None", "Extracted", "Dropped"}
    /\ ninst < MaxResults

\* Host code builds Ok(()).
MakeOk ==
    /\ halt = "run"
    /\ val.st = "none"
    /\ val' = [st |-> "Ok", kind |-> "none", msg |-> NULL]
    /\ last' = [NoLast EXCEPT !.op = "make"]
    /\ conv' = FALSE
    /\ UNCHANGED <<mem, nallocs, rel, res, ninst, raw, given, extracted,
                   dropRuns, halt>>

\* Host code builds Err(NvimError { kind, msg: CString }): the CString's
\* buffer comes from the host allocator.
MakeErr ==
    /\ halt = "run"
    /\ val.st = "none"
    /\ nallocs < MaxAllocs
    /\ \E k \in NvimErrorKind, b \in Msgs, a \in FreeAddrs(mem) :
        /\ mem' = Alloc(mem, a, "host", b, nallocs + 1)
        /\ val' = [st |-> "Err", kind |-> k, msg |-> a]
        /\ last' = [NoLast EXCEPT !.op = "make"]
    /\ nallocs' = nallocs + 1
    /\ rel' = [rel EXCEPT ![nallocs + 1].by = "host"]
    /\ conv' = FALSE
    /\ UNCHANGED <<res, ninst, raw, given, extracted, dropRuns, halt>>

\* NvimResult::new_ok()
new_ok ==
    /\ CanConstruct
    /\ ninst' = ninst + 1
    /\ res' = [st |-> "Owned", type_ |-> NewOkError.type_,
               msg |-> NewOkError.msg, inst |-> ninst + 1,
               origin |-> "new_ok", pop |-> 0]
    /\ last' = [NoLast EXCEPT !.op = "new_ok", !.inst = ninst + 1]
    /\ conv' = conv
    /\ UNCHANGED <<mem, nallocs, rel, raw, val, given, extracted,
                   dropRuns, halt>>

\* <NvimResult as Default>::default()
Default ==
    /\ CanConstruct
    /\ ninst' = ninst + 1
    /\ res' = [st |-> "Owned", type_ |-> NewOkError.type_,
               msg |-> NewOkError.msg, inst |-> ninst + 1,
               origin |-> "default", pop |-> 0]
    /\ last' = [NoLast EXCEPT !.op = "default", !.inst = ninst + 1]
    /\ conv' = FALSE
    /\ UNCHANGED <<mem, nallocs, rel, raw, val, given, extracted,
                   dropRuns, halt>>

\* NvimResult::from_result(result).  In the Err arm msg is err.msg.as_ptr(),
\* a borrow: err, and with it the CString, is dropped at the end of the arm,
\* which releases the buffer through the host allocator before the
\* NvimResult is built around the pointer.
from_result ==
    /\ CanConstruct
    /\ val.st \in {"Ok", "Err"}
    /\ ninst' = ninst + 1
    /\ val' = NoVal
    /\ IF val.st = "Ok"
       THEN /\ res' = [st |-> "Owned", type_ |-> ErrorType_kErrorTypeNone,
                       msg |-> NULL, inst |-> ninst + 1,
                       origin |-> "from_result", pop |-> 0]
            /\ given' = [st |-> "Ok", kind |-> "none", bytes |-> "",
                         id |-> 0]
            /\ last' = [NoLast EXCEPT !.op = "from_result",
                           !.inst = ninst + 1]
            /\ UNCHANGED <<mem, rel, halt>>
       ELSE /\ res' = [st |-> "Owned", type_ |-> TypeOfKind(val.kind),
                       msg |-> val.msg, inst |-> ninst + 1,
                       origin |-> "from_result", pop |-> 0]
            /\ \E b \in ReadBytes(mem, val.msg) :
                 given' = [st |-> "Err", kind |-> val.kind, bytes |-> b,
                           id |-> mem[val.msg].id]
            /\ mem' = Release(mem, val.msg)
            /\ rel' = Released(rel, mem, val.msg, "from_result")
            /\ halt' \in HaltAfterRelease(mem, val.msg, "host")
            /\ last' = [NoLast EXCEPT !.op = "from_result",
                           !.inst = ninst + 1,
                           !.type_ = TypeOfKind(val.kind),
                           !.msg = val.msg, !.id = mem[val.msg].id,
                           !.alloc = mem[val.msg].by,
                           !.live = IsLive(mem', val.msg)]
    /\ conv' = FALSE
    /\ UNCHANGED <<nallocs, raw, extracted, dropRuns>>

\* NvimResult::as_borrowed_ffi_mut(), and the foreign function writing
\* through the borrow: it may overwrite the tag and the message pointer,
\* the latter with null or with a buffer from the foreign allocator.
as_borrowed_ffi_mut ==
    /\ halt = "run"
    /\ res.st = "Owned"
    /\ res.pop < MaxPopulate
    /\ \E t \in ErrorTypes :
        \/ /\ res' = [res EXCEPT !.type_ = t, !.msg = NULL, !.pop = @ + 1]
           /\ rel' = Lost(rel, mem, res.msg, "overwritten")
           /\ UNCHANGED <<mem, nallocs>>
        \/ /\ nallocs < MaxAllocs
           /\ \E b \in ForeignMsgs, a \in FreeAddrs(mem) :
                /\ mem' = Alloc(mem, a, "foreign", b, nallocs + 1)
                /\ res' = [res EXCEPT !.type_ = t, !.msg = a, !.pop = @ + 1]
           /\ nallocs' = nallocs + 1
           /\ rel' = [Lost(rel, mem, res.msg, "overwritten")
                         EXCEPT ![nallocs + 1].by = "foreign"]
    /\ last' = [NoLast EXCEPT !.op = "as_borrowed_ffi_mut",
                   !.inst = res.inst, !.type_ = res.type_, !.msg = res.msg,
                   !.id = IdOf(mem, res.msg)]
    /\ conv' = (/\ conv
                /\ res.pop = 0
                /\ res'.type_ \in KnownTypes
                /\ RepInvariant(res'.type_, res'.msg))
    /\ UNCHANGED <<ninst, raw, val, given, extracted, dropRuns, halt>>

\* NvimResult::into_ffi(self), called by host code.
into_ffi ==
    /\ halt = "run"
    /\ res.st = "Owned"
    /\ ~raw.held
    /\ res' = IntoFfiSelf(res)
    /\ raw' = IntoFfiInner(res)
    /\ extracted' = extracted \cup {res.inst}
    /\ last' = [NoLast EXCEPT !.op = "into_ffi", !.inst = res.inst,
                   !.type_ = res.type_, !.msg = res.msg,
                   !.live = IsLive(mem, res.msg)]
    /\ conv' = FALSE
    /\ UNCHANGED <<mem, nallocs, rel, ninst, val, given, dropRuns, halt>>

\* NvimResult::into_result(self): into_ffi, then the match on the tag.
into_result ==
    /\ halt = "run"
    /\ res.st = "Owned"
    /\ val.st = "none"
    /\ LET inner == IntoFfiInner(res)
           m == IntoResultMatch(inner.type_, inner.msg)
       IN /\ res' = IntoFfiSelf(res)
          /\ extracted' = extracted \cup {res.inst}
          /\ val' = IF m.ret = "panic" THEN NoVal
                    ELSE [st |-> m.ret, kind |-> m.kind, msg |-> m.msg]
          /\ halt' = IF m.ret = "panic" THEN "panic" ELSE "run"
          /\ \E b \in ReadBytes(mem, m.msg) :
               last' = [NoLast EXCEPT !.op = "into_result",
                           !.inst = res.inst, !.type_ = res.type_,
                           !.msg = res.msg, !.ret = m.ret, !.kind = m.kind,
                           !.bytes = b,
                           !.live = IsLive(mem, m.msg),
                           !.id = IdOf(mem, inner.msg),
                           !.alloc = AllocOf(mem, m.msg)]
          /\ rel' = IF m.ret = "Err" THEN rel
                    ELSE Lost(rel, mem, inner.msg, "unclaimed")
    /\ conv' = conv
    /\ UNCHANGED <<mem, nallocs, ninst, raw, given, dropRuns>>

\* A teardown that looks at the tag and frees only for an error tag.
DropReleasesOnErrorTag(type_, msg) ==
    type_ # ErrorType_kErrorTypeNone /\ XfreeClearReleases(msg)

\* Whether drop releases: the body is the one xfree_clear call on msg,
\* whatever the tag.
DropReleases(type_, msg) == XfreeClearReleases(msg)

\* <NvimResult as Drop>::drop: runs when an NvimResult that was not
\* consumed goes out of scope.
Drop ==
    /\ halt = "run"
    /\ res.st = "Owned"
    /\ dropRuns' = dropRuns \cup {res.inst}
    /\ res' = [res EXCEPT !.st = "Dropped", !.msg = XfreeClearPtr(res.msg)]
    /\ IF DropReleases(res.type_, res.msg)
       THEN /\ mem' = Release(mem, res.msg)
            /\ rel' = Released(rel, mem, res.msg, "drop")
            /\ halt' \in HaltAfterRelease(mem, res.msg, "foreign")
       ELSE UNCHANGED <<mem, rel, halt>>
    /\ last' = [NoLast EXCEPT !.op = "drop", !.inst = res.inst,
                   !.type_ = res.type_, !.msg = res.msg,
                   !.ret = IF DropReleases(res.type_, res.msg)
                           THEN "released" ELSE "nothing",
                   !.live = IsLive(mem, res.msg),
                   !.id = IdOf(mem, res.msg),
                   !.alloc = AllocOf(mem, res.msg)]
    /\ conv' = conv
    /\ UNCHANGED <<nallocs, ninst, raw, val, given, extracted>>

\* The Result<(), NvimError> held by host code goes out of scope: an
\* NvimError drops its CString, which hands the buffer to the host
\* allocator.
DropValue ==
    /\ halt = "run"
    /\ val.st \in {"Ok", "Err"}
    /\ val' = NoVal
    /\ IF val.st = "Err"
       THEN /\ mem' = Release(mem, val.msg)
            /\ rel' = Released(rel, mem, val.msg, "NvimError")
            /\ halt' \in HaltAfterRelease(mem, val.msg, "host")
       ELSE UNCHANGED <<mem, rel, halt>>
    /\ last' = [NoLast EXCEPT !.op = "drop_value", !.msg = val.msg,
                   !.ret = val.st, !.kind = val.kind,
                   !.live = IsLive(mem, val.msg),
                   !.id = IdOf(mem, val.msg),
                   !.alloc = AllocOf(mem, val.msg)]
    /\ conv' = conv
    /\ UNCHANGED <<nallocs, res, ninst, raw, given, extracted, dropRuns>>

\* Host code formats the NvimError it holds: <NvimError as Display>::fmt.
Display ==
    /\ halt = "run"
    /\ val.st = "Err"
    /\ \E b \in ReadBytes(mem, val.msg) :
         last' = [NoLast EXCEPT !.op = "display", !.kind = val.kind,
                     !.msg = val.msg, !.bytes = b,
                     !.ret = DisplayFmt(val.kind, b)]
    /\ conv' = conv
    /\ UNCHANGED <<mem, nallocs, rel, res, ninst, raw, val, given,
                   extracted, dropRuns, halt>>

\* The caller of into_ffi frees the Error it was handed, with the foreign
\* free function.
FreeRaw ==
    /\ halt = "run"
    /\ raw.held
    /\ raw' = NoRaw
    /\ IF XfreeClearReleases(raw.msg)
       THEN /\ mem' = Release(mem, raw.msg)
            /\ rel' = Released(rel, mem, raw.msg, "caller")
            /\ halt' \in HaltAfterRelease(mem, raw.msg, "foreign")
       ELSE UNCHANGED <<mem, rel, halt>>
    /\ last' = [NoLast EXCEPT !.op = "free_raw", !.type_ = raw.type_,
                   !.msg = raw.msg, !.live = IsLive(mem, raw.msg),
                   !.id = IdOf(mem, raw.msg),
                   !.alloc = AllocOf(mem, raw.msg)]
    /\ conv' = FALSE
    /\ UNCHANGED <<nallocs, res, ninst, val, given, extracted, dropRuns>>

Next ==
    \/ MakeOk
    \/ MakeErr
    \/ new_ok
    \/ Default
    \/ from_result
    \/ as_borrowed_ffi_mut
    \/ into_ffi
    \/ into_result
    \/ Drop
    \/ DropValue
    \/ FreeRaw
    \/ Display

Spec == Init /\ [][Next]_vars

----------------------------------------------------------------------------
(* Properties *)

\* Who is due to release the buffer at address a.
Holders(a) ==
    (IF res.st = "Owned" /\ res.msg = a THEN {"NvimResult"} ELSE {}) \cup
    (IF raw.held /\ raw.msg = a THEN {"Error"} ELSE {}) \cup
    (IF val.st = "Err" /\ val.msg = a THEN {"NvimError"} ELSE {})

\* into_result has just converted the NvimResult that from_result built,
\* with nothing written to it in between.
RoundTripDone ==
    /\ last.op = "into_result"
    /\ res.origin = "from_result"
    /\ res.pop = 0
    /\ res.inst = last.inst

\* C1: from_result(v) followed by into_result() yields a value equal to v
\* (same kind, identical message bytes), the bytes being read from a buffer
\* that is still live when into_result reads it.
RoundTripIdentity ==
    RoundTripDone =>
        /\ last.ret = given.st
        /\ last.kind = given.kind
        /\ given.st = "Err" => /\ last.bytes = given.bytes
                               /\ last.id = given.id
                               /\ last.live

\* C2: after from_result(Err(e)) returns, msg points to the backing buffer
\* of e.msg, the host side has not released that buffer, and the NvimResult
\* is its only owner.
FromResultTransfersOwnership ==
    (last.op = "from_result" /\ given.st = "Err") =>
        /\ res.msg # NULL
        /\ mem[res.msg].id = given.id
        /\ IsLive(mem, res.msg)
        /\ rel[given.id].n = 0
        /\ Holders(res.msg) = {"NvimResult"}

\* C3: every message buffer is released at most once, and the buffer of
\* from_result(Err(..)) is released exactly once when the un-extracted
\* NvimResult is dropped.
NoDoubleFree ==
    /\ \A i \in AllocIds : rel[i].n <= 1
    /\ (last.op = "drop" /\ res.origin = "from_result" /\ res.pop = 0
          /\ given.st = "Err") => rel[given.id].n = 1

\* C4: each live message buffer has at most one holder of destructor
\* responsibility among the NvimResult, the raw Error returned by into_ffi
\* and the host outcome (passed to from_result or returned by into_result).
SingleOwner ==
    \A a \in Addrs : IsLive(mem, a) => Cardinality(Holders(a)) <= 1

\* C5: once an NvimResult has been extracted by into_ffi or into_result, its
\* Drop never runs, and it never becomes Owned again.
NoTeardownAfterExtraction ==
    /\ extracted \cap dropRuns = {}
    /\ res.st = "Owned" => res.inst \notin extracted
    /\ res.st = "Extracted" => res.inst \in extracted

\* An NvimResult that held a foreign buffer was converted by into_result and
\* the returned NvimError was dropped: the buffer got its one release.
NoTeardownAfterExtractionWitness ==
    /\ res.st = "Extracted"
    /\ res.inst \in extracted
    /\ res.msg # NULL
    /\ last.op = "drop_value"
    /\ last.msg = res.msg
    /\ rel[last.id].n = 1

\* C6: a buffer allocated by the foreign side is only ever released by the
\* foreign free function, never by the host allocator.
ForeignBuffersFreedByForeign ==
    \A i \in AllocIds :
        rel[i].by = "foreign" => rel[i].who \cap HostReleasers = {}

\* C7: dropping an NvimResult that was never extracted releases its buffer
\* if and only if msg is non-null, and with the allocator that allocated the
\* buffer, which is still allocated at that point.
DropUsesMatchingAllocator ==
    last.op = "drop" =>
        /\ (last.ret = "released") <=> (last.msg # NULL)
        /\ last.ret = "released" => /\ last.alloc = "foreign"
                                    /\ last.live

\* C8: on a representation satisfying the null/non-null rule, into_result
\* returns Ok(()) for the tag None, Err of kind Exception for Exception and
\* Err of kind Validation for Validation, and the returned message is the
\* very buffer msg held.
ClassificationByTag ==
    (last.op = "into_result" /\ RepInvariant(last.type_, last.msg)
       /\ last.type_ \in KnownTypes) =>
        /\ last.type_ = ErrorType_kErrorTypeNone =>
              last.ret = "Ok" /\ val.st = "Ok"
        /\ last.type_ = ErrorType_kErrorTypeException =>
              /\ last.ret = "Err" /\ val.st = "Err"
              /\ val.kind = "Exception" /\ val.msg = last.msg
        /\ last.type_ = ErrorType_kErrorTypeValidation =>
              /\ last.ret = "Err" /\ val.st = "Err"
              /\ val.kind = "Validation" /\ val.msg = last.msg
        /\ halt = "run"

\* A foreign function reported a validation error and into_result turned
\* it into Err(Validation, ..) around the foreign buffer.
ClassificationByTagWitness ==
    /\ last.op = "into_result"
    /\ last.type_ = ErrorType_kErrorTypeValidation
    /\ last.msg # NULL
    /\ last.alloc = "foreign"
    /\ val.st = "Err"
    /\ val.msg = last.msg

\* C9: into_result on a representation tagged Exception or Validation with
\* a null msg panics and returns no value.
FatalOnNullMessage ==
    (last.op = "into_result" /\ last.msg = NULL
       /\ last.type_ \in {ErrorType_kErrorTypeException,
                          ErrorType_kErrorTypeValidation}) =>
        /\ last.ret = "panic"
        /\ halt = "panic"
        /\ val.st = "none"

\* into_result met the tag Exception with a null msg.
FatalOnNullMessageWitness ==
    /\ last.op = "into_result"
    /\ last.type_ = ErrorType_kErrorTypeException
    /\ last.msg = NULL
    /\ halt = "panic"

\* C10: into_result on a representation whose tag is none of None,
\* Exception, Validation panics, whatever msg is, and returns no value.
UnknownTagRejected ==
    (last.op = "into_result" /\ last.type_ \notin KnownTypes) =>
        /\ last.ret = "panic"
        /\ halt = "panic"
        /\ val.st = "none"

\* into_result met an unknown tag next to a non-null msg.
UnknownTagRejectedWitness ==
    /\ last.op = "into_result"
    /\ last.type_ \in UnknownTypes
    /\ last.msg # NULL
    /\ halt = "panic"

\* C11: new_ok() and default() both hold {tag None, msg null}, and
\* into_result on either returns Ok(()) while no buffer is released or
\* allocated.
OkStateDefault ==
    [][/\ last'.op \in {"new_ok", "default"} =>
            res'.type_ = ErrorType_kErrorTypeNone /\ res'.msg = NULL
       /\ (last'.op = "into_result" /\ res.st = "Owned" /\ res.pop = 0
             /\ res.origin \in {"new_ok", "default"}) =>
            /\ last'.ret = "Ok"
            /\ val'.st = "Ok"
            /\ halt' = "run"
            /\ mem' = mem /\ rel' = rel /\ nallocs' = nallocs]_vars

\* A default-constructed NvimResult was converted and gave Ok(()).
OkStateDefaultWitness ==
    /\ last.op = "into_result"
    /\ res.origin = "default"
    /\ res.pop = 0
    /\ val.st = "Ok"

\* C12: every representation built by new_ok, default or from_result has a
\* known tag, msg null exactly when the tag is None and non-null exactly
\* when it is Exception or Validation.
AdapterBuiltRepInvariant ==
    last.op \in {"new_ok", "default", "from_result"} =>
        /\ res.st = "Owned"
        /\ res.type_ \in KnownTypes
        /\ RepInvariant(res.type_, res.msg)

\* from_result built a Validation representation with a non-null msg.
AdapterBuiltRepInvariantWitness ==
    /\ last.op = "from_result"
    /\ res.type_ = ErrorType_kErrorTypeValidation
    /\ res.msg # NULL

\* C13: the Error returned by into_ffi has the tag and the msg pointer the
\* NvimResult held just before the call, into_ffi releases nothing, and
\* afterwards the caller, not the NvimResult, answers for the buffer: the
\* instance is Extracted, its Drop has not run, and into_ffi gave the
\* buffer to nobody but the holder of the returned Error.
IntoFfiHandsOffUnchanged ==
    [][(last'.op = "into_ffi" /\ res.st = "Owned") =>
            /\ raw'.held
            /\ raw'.type_ = res.type_
            /\ raw'.msg = res.msg
            /\ mem' = mem /\ rel' = rel
            /\ res'.st = "Extracted"
            /\ res.inst \notin dropRuns'
            /\ val' = val]_vars

\* into_ffi handed out an error-tagged Error with its live foreign buffer.
IntoFfiHandsOffUnchangedWitness ==
    /\ last.op = "into_ffi"
    /\ raw.held
    /\ raw.type_ = ErrorType_kErrorTypeException
    /\ raw.msg # NULL
    /\ IsLive(mem, raw.msg)
    /\ mem[raw.msg].by = "foreign"

\* The run has ended: the NvimResult was dropped, or it was converted and
\* the returned outcome was dropped, and nothing stopped the program.
RunComplete ==
    /\ res.st \in {"Dropped", "Extracted"}
    /\ val.st = "none"
    /\ halt = "run"

\* C14: in a run where every result is created by new_ok, populated at most
\* once through as_borrowed_ffi_mut with a representation that satisfies
\* the null/non-null rule, and then either dropped or converted with
\* into_result and the returned outcome dropped, every message buffer that
\* was allocated has been released exactly once when the run ends.
NoLeakOnNormalConvention ==
    (conv /\ RunComplete) => \A i \in 1..nallocs : rel[i].n = 1

\* A foreign function reported an error, into_result returned it and the
\* outcome was dropped.
NoLeakOnNormalConventionWitness ==
    /\ conv
    /\ RunComplete
    /\ last.op = "drop_value"
    /\ last.msg # NULL
    /\ nallocs >= 1
    /\ rel[1].n = 1

\* C15: Display of an NvimError is the kind's label, one ": " separator and
\* the message: "Exception: m" or "Validation: m", with no doubled label or
\* separator.
DisplaySingleLabel ==
    last.op = "display" => last.ret = last.kind \o ": " \o last.bytes

\* The releases the adapter itself makes.
AdapterReleasers == {"from_result", "drop"}

\* C16: the adapter releases only the buffer msg points to when Drop runs:
\* a buffer an NvimResult held whose pointer was overwritten through
\* as_borrowed_ffi_mut is never released by any adapter operation.
OverwrittenNeverReleasedByAdapter ==
    \A i \in AllocIds :
        rel[i].lost = "overwritten" => rel[i].who \cap AdapterReleasers = {}

\* from_result has released a buffer whose pointer it kept (line 44 borrows
\* with as_ptr and the arm drops err): a stale pointer exists in this run.
StalePointerMade == \E j \in AllocIds : "from_result" \in rel[j].who

DropIgnoresTagNoneWitness ==
    /\ last.op = "drop"
    /\ last.type_ = ErrorType_kErrorTypeNone
    /\ last.msg # NULL
    /\ last.ret = "released"

====
